---- MODULE Spec2Model ----
(***************************************************************************)
(* Field mapping (FieldMapService) and rich-text resolution                *)
(* (RichTextResolver) of the Kentico Kontent delivery SDK.                 *)
(*                                                                         *)
(* A mapping pass is one top-level call of FieldMapService.mapFields on    *)
(* the root item of a response.  The recursion of mapFields through        *)
(* mapModularField and mapRichTextField is modelled with an explicit call  *)
(* stack: one frame per running mapFields call, one action per step of     *)
(* the forEach loops.                                                      *)
(***************************************************************************)
EXTENDS Integers, Sequences, FiniteSets, TLC

VARIABLES
    modularContent,   \* raw payload: codename -> raw item (the root included)
    enableAdvancedLogging,            \* DeliveryClientConfig.enableAdvancedLogging
    throwErrorForMissingLinkedItems,  \* query configuration flag
    propertyResolver, \* the typed item's propertyResolver ("none" when undefined)
    decorators,       \* property names declared by field decorators ("none" when undeclared)
    instances,        \* every typed item created so far, by creation order
    processedItems,   \* the processedItems array: ids of registered instances
    stack,            \* running mapFields calls, innermost last
    status,           \* "idle", "running", "done", "failed" (an Error left the pass)
                      \* or "overflow" (the recursion used up the call stack)
    result,           \* id of the typed item returned to the caller, None before
    error,            \* the Error thrown out of the pass, "" when none
    warned,           \* TRUE once console.warn was called
    rtItems,          \* what getLinkedItem yields: codename -> mapped item
    queryConfig,      \* resolvers of the query configuration (defined or not)
    rtCall,           \* the running call of the rich-text resolver and its arguments
    rtStatus,         \* "idle", "searching", "returned", "threw" or "overflow"
    rtResult,         \* what the call returned or threw
    rtInvoked,        \* resolver functions the call invoked
    rtSearch,         \* running tryGetImageFromLinkedItem calls, innermost last
    typeResolver,     \* typeResolverService.hasTypeResolver(item.system.type)
    queryLinkResolver,  \* queryConfig.linkResolver is defined
    itemLinkResolver, \* the model class of the item's type defines linkResolver
    links,            \* data.links: the links of the rich-text element
    urlSlugResolvers, \* queryConfig.urlSlugResolver and the global resolver per type
    elementResponse,  \* the raw element handed to GenericElementMapper.mapElement
    elementResult     \* what mapElement returned or threw

mapperVars == <<modularContent, enableAdvancedLogging, throwErrorForMissingLinkedItems,
                propertyResolver, decorators, instances, processedItems, stack, status,
                result, error, warned>>

rtVars == <<rtItems, queryConfig, rtCall, rtStatus, rtResult, rtInvoked, rtSearch>>

typeVars == <<typeResolver, queryLinkResolver, itemLinkResolver>>

urlVars == <<links, urlSlugResolvers>>

elementVars == <<elementResponse, elementResult>>

----------------------------------------------------------------------------
(* Bounds of the model *)

\* longest list of codenames in a linked-items value or a rich-text modular_content
MaxRefs == 2
\* depth of the call stack at which the run time gives up an endless recursion
MaxStack == 5

Codenames == {"a", "b", "c"}
Root == "a"
None == 0

\* element codenames, in the order Object.getOwnPropertyNames yields them
ElementNames == <<"e1", "e2">>
ElementNameSet == {ElementNames[i] : i \in 1..Len(ElementNames)}

BoundedSeq(S, n) == UNION {[1..k -> S] : k \in 0..n}

RefLists == BoundedSeq(Codenames, MaxRefs)

----------------------------------------------------------------------------
(* Raw payload *)

\* field types sent by the inputs; "custom" is not a member of FieldType
ScalarInputTypes == {"text"}
UnknownInputTypes == {"custom"}

RawFields ==
    {[type |-> t, hasValue |-> TRUE, refs |-> <<>>] : t \in ScalarInputTypes \cup UnknownInputTypes}
    \cup {[type |-> "modular_content", hasValue |-> FALSE, refs |-> <<>>]}
    \cup {[type |-> t, hasValue |-> TRUE, refs |-> r] : t \in {"modular_content", "rich_text"}, r \in RefLists}

AbsentItem == [present |-> FALSE, hasSystem |-> FALSE, hasElements |-> FALSE, elements |-> <<>>]
NoSystemItem == [present |-> TRUE, hasSystem |-> FALSE, hasElements |-> FALSE, elements |-> <<>>]
NoElementsItem == [present |-> TRUE, hasSystem |-> TRUE, hasElements |-> FALSE, elements |-> <<>>]

\* items with system and with one to n elements
WellFormedItems(n) ==
    {[present |-> TRUE, hasSystem |-> TRUE, hasElements |-> TRUE, elements |-> e] :
        e \in BoundedSeq(RawFields, n) \ {<<>>}}

MalformedItems == {NoSystemItem, NoElementsItem}

\* items whose elements are no linked-items and no rich-text fields
LeafItems(n) ==
    {i \in WellFormedItems(n) :
        \A k \in 1..Len(i.elements) : i.elements[k].type \notin {"modular_content", "rich_text"}}

WellFormed(item) == item.present /\ item.hasSystem /\ item.hasElements
Malformed(item) == item.present /\ ~(item.hasSystem /\ item.hasElements)

NoPropertyResolver == [defined |-> FALSE, names |-> [e \in ElementNameSet |-> ""]]
NoDecorators == [e \in ElementNameSet |-> ""]

----------------------------------------------------------------------------
(* Data of the rich-text resolver *)

RTCodenames == {"a", "b"}
ImageIds == {"i1"}
\* properties of a mapped item, in the order Object.keys yields them
PropNames == <<"p1">>
\* an element name no item has a property for
OtherElement == "px"

\* a property of a mapped item: a RichTextElement with its images and
\* linkedItemCodenames, or some other value
LinkedItemProps ==
    {[isRichText |-> FALSE, images |-> {}, linkedItemCodenames |-> <<>>]}
    \cup {[isRichText |-> TRUE, images |-> im, linkedItemCodenames |-> l] :
            im \in SUBSET ImageIds, l \in BoundedSeq(RTCodenames, MaxRefs)}

AbsentLinkedItem == [present |-> FALSE, ownResolver |-> FALSE, props |-> <<>>]

LinkedItems ==
    {[present |-> TRUE, ownResolver |-> r, props |-> ps] :
        r \in BOOLEAN, ps \in [1..Len(PropNames) -> LinkedItemProps]}

NoCall == [op |-> "none", itemCodename |-> "", imageId |-> "", elementName |-> "",
           itemId |-> ""]
NoResult == [kind |-> "none", by |-> "", of |-> ""]

\* longest links list of a rich-text element
MaxLinks == 2

LinkIds == {"l1", "l2"}
LinkTypes == {"t1", "t2"}

\* entries of data.links
LinkRecords == {[linkId |-> l, codename |-> "a", type |-> t] : l \in LinkIds, t \in LinkTypes}
NoLink == [linkId |-> "", codename |-> "", type |-> ""]

\* a URL-slug resolver: not defined ("none"), or a function that returns
\* undefined, an object with empty html and url, or an object with a url
ResolverKinds == {"none", "undefined", "empty", "url"}

NoUrlSlugResolvers == [query |-> "none", global |-> [t \in LinkTypes |-> "none"]]

----------------------------------------------------------------------------
(* Data of the element mapper *)

Undefined == "undefined"

\* raw options of an element: undefined, null or an array
RawOptions ==
    {[kind |-> k, list |-> <<>>] : k \in {"undefined", "null"}}
    \cup {[kind |-> "array", list |-> l] : l \in {<<>>, <<"o1">>, <<"o1", "o2">>}}

\* what mapElement is called with: null, undefined or a raw element
ElementResponses ==
    {[kind |-> k, codename |-> Undefined, name |-> Undefined, type |-> Undefined,
      options |-> [kind |-> "undefined", list |-> <<>>], taxonomy_group |-> Undefined] :
        k \in {"null", "undefined"}}
    \cup {[kind |-> "object", codename |-> c, name |-> n, type |-> t, options |-> o,
           taxonomy_group |-> g] :
            c \in {Undefined, "category"}, n \in {Undefined, "Category"},
            t \in {"multiple_choice", "taxonomy", "text"}, o \in RawOptions,
            g \in {Undefined, "releasecategory"}}

NoElement == [codename |-> "", name |-> "", type |-> "", options |-> <<>>, taxonomyGroup |-> ""]
NotMapped == [status |-> "none", error |-> "", element |-> NoElement]

----------------------------------------------------------------------------
(* FieldMapService *)

\* processedItems.find(m => m.system.codename === codename): position, 0 if none
FindProcessed(list, insts, codename) ==
    IF \E i \in 1..Len(list) : insts[list[i]].codename = codename
    THEN CHOOSE i \in 1..Len(list) :
            /\ insts[list[i]].codename = codename
            /\ \A j \in 1..(i - 1) : insts[list[j]].codename # codename
    ELSE 0

RegisterProcessedAlways(list, insts, id, codename) == Append(list, id)

\* mapFields: if (!processedItem) { processedItems.push(itemTyped) }
RegisterProcessed(list, insts, id, codename) ==
    IF FindProcessed(list, insts, codename) = 0 THEN Append(list, id) ELSE list

MapFieldsGuardNoElementsCheck(item) ==
    IF ~item.present THEN "item is not defined"
    ELSE IF ~item.hasSystem THEN "no system attributes"
    ELSE "ok"

\* the guards at the head of mapFields; "ok" when none throws
MapFieldsGuard(item) ==
    IF ~item.present THEN "item is not defined"
    ELSE IF ~item.hasSystem THEN "no system attributes"
    ELSE IF ~item.hasElements THEN "cannot map elements"
    ELSE "ok"

MapFieldHandlerLenient(type) ==
    CASE type = "modular_content" -> "mapModularField"
      [] type = "rich_text" -> "mapRichTextField"
      [] OTHER -> "mapTextField"

\* mapField: the handler chosen for a raw field type
MapFieldHandler(type) ==
    CASE type = "modular_content" -> "mapModularField"
      [] type = "text" -> "mapTextField"
      [] type = "asset" -> "mapAssetsField"
      [] type = "number" -> "mapNumberField"
      [] type = "multiple_choice" -> "mapMultipleChoiceField"
      [] type = "datetime" -> "mapDateTimeField"
      [] type = "rich_text" -> "mapRichTextField"
      [] type = "url_slug" -> "mapUrlSlugField"
      [] type = "taxonomy" -> "mapTaxonomyField"
      [] OTHER -> "unsupported"

ScalarHandlers == {"mapTextField", "mapAssetsField", "mapNumberField",
                   "mapMultipleChoiceField", "mapDateTimeField",
                   "mapUrlSlugField", "mapTaxonomyField"}

\* typeResolverService.createTypedObj: an instance of the model class
CreateTypedObj(resolver, decorated, linkResolver) ==
    [generic |-> FALSE, propertyResolver |-> resolver, decorators |-> decorated,
     linkResolver |-> linkResolver]

\* typeResolverService.createContentItem: a plain ContentItem, which declares
\* no property resolver, no decorated property and no link resolver
CreateContentItem ==
    [generic |-> TRUE, propertyResolver |-> NoPropertyResolver, decorators |-> NoDecorators,
     linkResolver |-> FALSE]

ItemTypedAlwaysOfClass(hasTypeResolver) ==
    CreateTypedObj(propertyResolver, decorators, itemLinkResolver)

\* mapFields: the typed item of the registered class, else the ContentItem
ItemTyped(hasTypeResolver) ==
    IF hasTypeResolver
    THEN CreateTypedObj(propertyResolver, decorators, itemLinkResolver)
    ELSE CreateContentItem

\* FieldDecorators.getPropertyName: the declared property of an element, "" if none
DecoratorPropertyName(decorated, fieldName) == decorated[fieldName]

PropertyNameDecoratorFirst(resolver, decorated, fieldName) ==
    LET byDecorator == DecoratorPropertyName(decorated, fieldName)
        byResolver == IF byDecorator # "" THEN byDecorator
                      ELSE IF resolver.defined THEN resolver.names[fieldName] ELSE ""
    IN IF byResolver # "" THEN byResolver ELSE fieldName

\* the property a mapped field is assigned to: property resolver, then decorator,
\* then the element codename
PropertyName(resolver, decorated, fieldName) ==
    LET byResolver == IF resolver.defined THEN resolver.names[fieldName] ELSE ""
        byDecorator == IF byResolver # "" THEN byResolver
                       ELSE DecoratorPropertyName(decorated, fieldName)
    IN IF byDecorator # "" THEN byDecorator ELSE fieldName

PushItemFront(acc, id) == <<id>> \o acc

\* modularContentItems.push(...) / modularItems.push(...)
PushItem(acc, id) == Append(acc, id)

\* itemTyped[propertyName] = value
AssignProperty(inst, name, value) ==
    [inst EXCEPT !.props =
        [n \in (DOMAIN inst.props) \cup {name} |-> IF n = name THEN value ELSE inst.props[n]]]

\* a mapped field; linkResolver is "" but for a UrlSlugField that was handed one
FieldValue(kind, isNull, items) ==
    [kind |-> kind, isNull |-> isNull, items |-> items, linkResolver |-> ""]

LinkResolverItemFirst(item, queryResolver) ==
    IF item.linkResolver THEN "item.linkResolver"
    ELSE IF queryResolver THEN "queryConfig.linkResolver"
    ELSE ""

\* getLinkResolverForUrlSlugField: "" when the resolver is undefined
GetLinkResolverForUrlSlugField(item, queryResolver) ==
    IF queryResolver THEN "queryConfig.linkResolver"
    ELSE IF item.linkResolver THEN "item.linkResolver"
    ELSE ""

\* mapUrlSlugField: new Fields.UrlSlugField(name, value, item, linkResolver, ...)
UrlSlugFieldValue(item, queryResolver) ==
    [FieldValue("mapUrlSlugField", FALSE, <<>>) EXCEPT
        !.linkResolver = GetLinkResolverForUrlSlugField(item, queryResolver)]

Top == stack[Len(stack)]
TopItem == modularContent[Top.codename]
TopField == TopItem.elements[Top.fieldIdx]
InLoop == status = "running" /\ stack # <<>> /\ Top.fieldIdx <= Len(TopItem.elements)

NewFrame(codename, id) ==
    [codename |-> codename, inst |-> id, fieldIdx |-> 1, refIdx |-> 1, acc |-> <<>>]

ProcessedAfterThrowRolledBack(list) == <<>>

\* processedItems after an Error left the pass: no handler undoes a push
ProcessedAfterThrow(list) == list

\* an Error leaves mapFields and every caller: nothing is caught
Throw(message) ==
    /\ status' = "failed"
    /\ error' = message
    /\ stack' = <<>>
    /\ processedItems' = ProcessedAfterThrow(processedItems)
    /\ UNCHANGED <<instances, result>>

CallMapFieldsUnregistered(codename, callers) ==
    LET item == modularContent[codename]
        id == Len(instances) + 1
    IN IF MapFieldsGuard(item) # "ok"
       THEN Throw(MapFieldsGuard(item))
       ELSE IF Len(callers) >= MaxStack
       THEN /\ status' = "overflow"
            /\ UNCHANGED <<instances, processedItems, stack, result, error>>
       ELSE /\ instances' = Append(instances, [codename |-> codename, props |-> << >>,
                                               generic |-> ItemTyped(typeResolver).generic])
            /\ stack' = Append(callers, NewFrame(codename, id))
            /\ status' = "running"
            /\ UNCHANGED <<processedItems, result, error>>

\* the body of mapFields up to the forEach, called with the callers' frames
CallMapFields(codename, callers) ==
    LET item == modularContent[codename]
        id == Len(instances) + 1
    IN IF MapFieldsGuard(item) # "ok"
       THEN Throw(MapFieldsGuard(item))
       ELSE IF Len(callers) >= MaxStack
       THEN /\ status' = "overflow"
            /\ UNCHANGED <<instances, processedItems, stack, result, error>>
       ELSE /\ instances' = Append(instances, [codename |-> codename, props |-> << >>,
                                               generic |-> ItemTyped(typeResolver).generic])
            /\ processedItems' = RegisterProcessed(processedItems, instances', id, codename)
            /\ stack' = Append(callers, NewFrame(codename, id))
            /\ status' = "running"
            /\ UNCHANGED <<result, error>>

Warn(cond) == warned' = (warned \/ (enableAdvancedLogging /\ cond))

cfgVars == <<modularContent, enableAdvancedLogging, throwErrorForMissingLinkedItems,
            propertyResolver, decorators, typeVars, urlVars, elementVars>>

\* the caller maps the root item of the response
MapRootItem ==
    /\ status = "idle"
    /\ CallMapFields(Root, <<>>)
    /\ UNCHANGED <<cfgVars, warned>>
    /\ UNCHANGED rtVars

\* the top frame with its current field assigned and the loop advanced
AssignAndAdvance(value) ==
    LET f == Top
        itemTyped == ItemTyped(typeResolver)
        name == PropertyName(itemTyped.propertyResolver, itemTyped.decorators,
                             ElementNames[f.fieldIdx])
    IN /\ instances' = [instances EXCEPT ![f.inst] = AssignProperty(@, name, value)]
       /\ stack' = [stack EXCEPT ![Len(stack)] =
                        [f EXCEPT !.fieldIdx = f.fieldIdx + 1, !.refIdx = 1, !.acc = <<>>]]

\* mapField on a field handled without recursion (text, number, asset, ...)
MapScalarField ==
    /\ InLoop
    /\ MapFieldHandler(TopField.type) \in ScalarHandlers
    /\ AssignAndAdvance(IF MapFieldHandler(TopField.type) = "mapUrlSlugField"
                        THEN UrlSlugFieldValue(ItemTyped(typeResolver), queryLinkResolver)
                        ELSE FieldValue(MapFieldHandler(TopField.type), FALSE, <<>>))
    /\ UNCHANGED <<cfgVars, processedItems, status, result, error, warned>>
    /\ UNCHANGED rtVars

\* mapField on a type outside FieldType
MapUnsupportedField ==
    /\ InLoop
    /\ MapFieldHandler(TopField.type) = "unsupported"
    /\ Warn(TRUE)
    /\ Throw("unsupported field type")
    /\ UNCHANGED cfgVars
    /\ UNCHANGED rtVars

\* mapModularField on a field without value: null is assigned
MapModularNoValue ==
    /\ InLoop
    /\ MapFieldHandler(TopField.type) = "mapModularField"
    /\ ~TopField.hasValue
    /\ Warn(TRUE)
    /\ AssignAndAdvance(FieldValue("mapModularField", TRUE, <<>>))
    /\ UNCHANGED <<cfgVars, processedItems, status, result, error>>
    /\ UNCHANGED rtVars

\* one iteration of fieldModularContent.forEach in mapModularField
MapModularRef ==
    /\ InLoop
    /\ MapFieldHandler(TopField.type) = "mapModularField"
    /\ TopField.hasValue
    /\ Top.refIdx <= Len(TopField.refs)
    /\ LET codename == TopField.refs[Top.refIdx]
           modularItem == modularContent[codename]
           found == FindProcessed(processedItems, instances, codename)
       IN IF ~modularItem.present
          THEN \* absent from the response: warned about when logging, then skipped
               /\ Warn(TRUE)
               /\ stack' = [stack EXCEPT ![Len(stack)].refIdx = @ + 1]
               /\ UNCHANGED <<instances, processedItems, status, result, error>>
          ELSE IF ~modularItem.hasSystem
          THEN \* modularItem.system.codename read on an item without system
               /\ Throw("cannot read codename of undefined system")
               /\ UNCHANGED warned
          ELSE IF found # 0
          THEN /\ stack' = [stack EXCEPT ![Len(stack)] =
                                [Top EXCEPT !.refIdx = @ + 1,
                                            !.acc = PushItem(@, processedItems[found])]]
               /\ UNCHANGED <<instances, processedItems, status, result, error, warned>>
          ELSE /\ CallMapFields(codename, stack)
               /\ UNCHANGED warned
    /\ UNCHANGED cfgVars
    /\ UNCHANGED rtVars

\* mapModularField returns modularContentItems
MapModularDone ==
    /\ InLoop
    /\ MapFieldHandler(TopField.type) = "mapModularField"
    /\ TopField.hasValue
    /\ Top.refIdx > Len(TopField.refs)
    /\ AssignAndAdvance(FieldValue("mapModularField", FALSE, Top.acc))
    /\ UNCHANGED <<cfgVars, processedItems, status, result, error, warned>>
    /\ UNCHANGED rtVars

\* one iteration of field.modular_content.forEach in mapRichTextField
MapRichTextRef ==
    /\ InLoop
    /\ MapFieldHandler(TopField.type) = "mapRichTextField"
    /\ Top.refIdx <= Len(TopField.refs)
    /\ LET codename == TopField.refs[Top.refIdx]
           modularContentItem == modularContent[codename]
       IN IF ~modularContentItem.present
          THEN Throw("modular content item is not present in response")
          ELSE CallMapFields(codename, stack)
    /\ UNCHANGED <<cfgVars, warned>>
    /\ UNCHANGED rtVars

\* mapRichTextField returns the RichTextField holding modularItems
MapRichTextDone ==
    /\ InLoop
    /\ MapFieldHandler(TopField.type) = "mapRichTextField"
    /\ Top.refIdx > Len(TopField.refs)
    /\ AssignAndAdvance(FieldValue("mapRichTextField", FALSE, Top.acc))
    /\ UNCHANGED <<cfgVars, processedItems, status, result, error, warned>>
    /\ UNCHANGED rtVars

\* mapFields returns itemTyped, to the caller of the pass or to the field mapper
\* that called it, which pushes the item to its list
ReturnItem ==
    /\ status = "running"
    /\ stack # <<>>
    /\ Top.fieldIdx > Len(TopItem.elements)
    /\ LET rest == SubSeq(stack, 1, Len(stack) - 1)
       IN IF rest = <<>>
          THEN /\ status' = "done"
               /\ result' = Top.inst
               /\ stack' = <<>>
          ELSE /\ stack' = [rest EXCEPT ![Len(rest)] =
                                [@ EXCEPT !.refIdx = @ + 1, !.acc = PushItem(@, Top.inst)]]
               /\ UNCHANGED <<status, result>>
    /\ UNCHANGED <<cfgVars, instances, processedItems, error, warned>>
    /\ UNCHANGED rtVars

\* parts of the SDK a run does not use stay as they are constructed
TypeIdle == typeResolver = FALSE /\ queryLinkResolver = FALSE /\ itemLinkResolver = FALSE
UrlIdle == links = <<>> /\ urlSlugResolvers = NoUrlSlugResolvers
ElementIdle == elementResponse \in {r \in ElementResponses : r.kind = "null"}
               /\ elementResult = NotMapped

\* a response: the root and one sibling carry one element each and may be
\* malformed or undefined, the third item references nothing and may be missing
Init ==
    /\ \E ra \in WellFormedItems(1) \cup MalformedItems \cup {AbsentItem},
          rb \in WellFormedItems(1) \cup MalformedItems \cup {AbsentItem},
          rc \in LeafItems(1) \cup {AbsentItem} :
            modularContent = ("a" :> ra) @@ ("b" :> rb) @@ ("c" :> rc)
    /\ enableAdvancedLogging \in BOOLEAN
    /\ throwErrorForMissingLinkedItems \in BOOLEAN
    /\ propertyResolver = NoPropertyResolver
    /\ decorators = NoDecorators
    /\ instances = <<>>
    /\ processedItems = <<>>
    /\ stack = <<>>
    /\ status = "idle"
    /\ result = None
    /\ error = ""
    /\ warned = FALSE
    /\ rtItems = [c \in RTCodenames |-> AbsentLinkedItem]
    /\ queryConfig = [richTextResolver |-> FALSE, richTextImageResolver |-> FALSE]
    /\ rtCall = NoCall
    /\ rtStatus = "idle"
    /\ rtResult = NoResult
    /\ rtInvoked = {}
    /\ rtSearch = <<>>
    /\ TypeIdle
    /\ UrlIdle
    /\ ElementIdle

Next ==
    \/ MapRootItem
    \/ MapScalarField
    \/ MapUnsupportedField
    \/ MapModularNoValue
    \/ MapModularRef
    \/ MapModularDone
    \/ MapRichTextRef
    \/ MapRichTextDone
    \/ ReturnItem

vars == <<mapperVars, rtVars, typeVars, urlVars, elementVars>>

Spec == Init /\ [][Next]_vars

----------------------------------------------------------------------------
(* RichTextResolver *)

Outcome(st, res, inv, warn) == [status |-> st, result |-> res, invoked |-> inv, warn |-> warn]
HtmlResult(by, of) == [kind |-> "html", by |-> by, of |-> of]
ImageResult(by, of) == [kind |-> "image", by |-> by, of |-> of]
ErrorResult(by, of) == [kind |-> "error", by |-> by, of |-> of]
\* the empty string and the object with an empty url
EmptyHtml == HtmlResult("", "")
EmptyUrl == ImageResult("", "")

\* data.getLinkedItem(codename)
GetLinkedItem(codename) == rtItems[codename]

LinkedItemHtmlResolverFirst(codename, linkedItem, strict, cfg) ==
    IF cfg.richTextResolver
    THEN Outcome("returned", HtmlResult("queryConfig.richTextResolver", codename),
                 {"queryConfig.richTextResolver"}, FALSE)
    ELSE IF ~linkedItem.present
    THEN IF strict
         THEN Outcome("threw", ErrorResult("linked item could not be found", codename), {}, FALSE)
         ELSE Outcome("returned", EmptyHtml, {}, TRUE)
    ELSE IF linkedItem.ownResolver
    THEN Outcome("returned", HtmlResult("linkedItem.richTextResolver", codename),
                 {"linkedItem.richTextResolver"}, FALSE)
    ELSE Outcome("returned", EmptyHtml, {}, TRUE)

RichTextResolverOfItemFirst(linkedItem, cfg) ==
    IF linkedItem.ownResolver THEN "linkedItem.richTextResolver"
    ELSE IF cfg.richTextResolver THEN "queryConfig.richTextResolver"
    ELSE ""

\* getLinkedItemHtml: the resolver of the query if defined, else the one of the
\* item's model, "" when neither is defined
RichTextResolverOf(linkedItem, cfg) ==
    IF cfg.richTextResolver THEN "queryConfig.richTextResolver"
    ELSE IF linkedItem.ownResolver THEN "linkedItem.richTextResolver"
    ELSE ""

\* getLinkedItemHtml
LinkedItemHtml(codename, linkedItem, strict, cfg) ==
    IF ~linkedItem.present
    THEN IF strict
         THEN Outcome("threw", ErrorResult("linked item could not be found", codename), {}, FALSE)
         ELSE Outcome("returned", EmptyHtml, {}, TRUE)
    ELSE LET resolver == RichTextResolverOf(linkedItem, cfg)
         IN IF resolver = ""
            THEN Outcome("returned", EmptyHtml, {}, TRUE)
            ELSE Outcome("returned", HtmlResult(resolver, codename), {resolver}, FALSE)

\* linkedItem[elementName]: position of the property, 0 when the item has none
PropIndex(elementName) ==
    IF \E k \in 1..Len(PropNames) : PropNames[k] = elementName
    THEN CHOOSE k \in 1..Len(PropNames) : PropNames[k] = elementName
    ELSE 0

\* getImageResult once the image is at hand: custom resolver, else image.url
ResolvedImage(imageId, cfg) ==
    IF cfg.richTextImageResolver
    THEN Outcome("returned", ImageResult("queryConfig.richTextImageResolver", imageId),
                 {"queryConfig.richTextImageResolver"}, FALSE)
    ELSE Outcome("returned", ImageResult("image.url", imageId), {}, FALSE)

\* getImageResult up to the search through the linked items
ImageLookup(codename, linkedItem, strict, cfg, imageId, elementName) ==
    IF ~linkedItem.present
    THEN IF strict
         THEN Outcome("threw", ErrorResult("linked item was not found", codename), {}, FALSE)
         ELSE Outcome("returned", EmptyUrl, {}, TRUE)
    ELSE LET idx == PropIndex(elementName)
         IN IF idx # 0 /\ ~linkedItem.props[idx].isRichText
            THEN Outcome("threw", ErrorResult("invalid element", codename), {}, FALSE)
            ELSE IF idx # 0 /\ imageId \in linkedItem.props[idx].images
            THEN ResolvedImage(imageId, cfg)
            ELSE Outcome("searching", NoResult, {}, FALSE)

rtInputs == <<modularContent, propertyResolver, decorators, instances, processedItems,
              stack, status, result, error, enableAdvancedLogging,
              throwErrorForMissingLinkedItems, rtItems, queryConfig,
              typeVars, urlVars, elementVars>>

\* the call ends (or goes on searching) with the outcome
Conclude(outcome) ==
    /\ rtStatus' = outcome.status
    /\ rtResult' = outcome.result
    /\ rtInvoked' = rtInvoked \cup outcome.invoked
    /\ Warn(outcome.warn)

\* the parser asks for the HTML of a linked-item embed
GetLinkedItemHtml ==
    /\ rtStatus = "idle"
    /\ \E codename \in RTCodenames :
        /\ rtCall' = [op |-> "getLinkedItemHtml", itemCodename |-> codename,
                      imageId |-> "", elementName |-> "", itemId |-> ""]
        /\ Conclude(LinkedItemHtml(codename, GetLinkedItem(codename),
                                   throwErrorForMissingLinkedItems, queryConfig))
    /\ UNCHANGED <<rtInputs, rtSearch>>

SearchFrame(codename) == [codename |-> codename, propIdx |-> 1, linkIdx |-> 0]

\* the parser asks for the url of an inline image
GetImageResult ==
    /\ rtStatus = "idle"
    /\ \E codename \in RTCodenames, imageId \in ImageIds,
          elementName \in {PropNames[1], OtherElement} :
        LET outcome == ImageLookup(codename, GetLinkedItem(codename),
                                   throwErrorForMissingLinkedItems, queryConfig,
                                   imageId, elementName)
        IN /\ rtCall' = [op |-> "getImageResult", itemCodename |-> codename,
                         imageId |-> imageId, elementName |-> elementName, itemId |-> ""]
           /\ Conclude(outcome)
           /\ rtSearch' = IF outcome.status = "searching"
                          THEN <<SearchFrame(codename)>> ELSE <<>>
    /\ UNCHANGED rtInputs

SearchTop == rtSearch[Len(rtSearch)]
SearchItem == GetLinkedItem(SearchTop.codename)
SearchProp == SearchItem.props[SearchTop.propIdx]
Searching == rtStatus = "searching" /\ rtSearch # <<>>
AtProp == Searching /\ SearchTop.propIdx <= Len(SearchItem.props)

\* tryGetImageFromLinkedItem looks at a property: not a rich-text element, or
\* one that has the image, or one whose linked items are to be searched
SearchElement ==
    /\ AtProp
    /\ SearchTop.linkIdx = 0
    /\ IF ~SearchProp.isRichText
       THEN /\ rtSearch' = [rtSearch EXCEPT ![Len(rtSearch)].propIdx = @ + 1]
            /\ UNCHANGED <<rtStatus, rtResult, rtInvoked, warned>>
       ELSE IF rtCall.imageId \in SearchProp.images
       THEN \* every caller hands the image on, getImageResult resolves it
            /\ rtSearch' = <<>>
            /\ Conclude(ResolvedImage(rtCall.imageId, queryConfig))
       ELSE /\ rtSearch' = [rtSearch EXCEPT ![Len(rtSearch)].linkIdx = 1]
            /\ UNCHANGED <<rtStatus, rtResult, rtInvoked, warned>>
    /\ UNCHANGED <<rtInputs, rtCall>>

\* one iteration over linkedItemCodenames: recurse into the item if it is there
SearchLinkedItem ==
    /\ AtProp
    /\ SearchTop.linkIdx >= 1
    /\ SearchTop.linkIdx <= Len(SearchProp.linkedItemCodenames)
    /\ LET codename == SearchProp.linkedItemCodenames[SearchTop.linkIdx]
       IN IF ~GetLinkedItem(codename).present
          THEN /\ rtSearch' = [rtSearch EXCEPT ![Len(rtSearch)].linkIdx = @ + 1]
               /\ UNCHANGED rtStatus
          ELSE IF Len(rtSearch) >= MaxStack
          THEN /\ rtStatus' = "overflow"
               /\ UNCHANGED rtSearch
          ELSE /\ rtSearch' = Append(rtSearch, SearchFrame(codename))
               /\ UNCHANGED rtStatus
    /\ UNCHANGED <<rtInputs, rtCall, rtResult, rtInvoked, warned>>

\* the linked items of a rich-text element held no image: next property
SearchNextElement ==
    /\ AtProp
    /\ SearchTop.linkIdx > Len(SearchProp.linkedItemCodenames)
    /\ rtSearch' = [rtSearch EXCEPT ![Len(rtSearch)] =
                        [@ EXCEPT !.propIdx = @ + 1, !.linkIdx = 0]]
    /\ UNCHANGED <<rtInputs, rtCall, rtStatus, rtResult, rtInvoked, warned>>

\* tryGetImageFromLinkedItem returns undefined; getImageResult throws when the
\* outermost call does
SearchReturn ==
    /\ Searching
    /\ SearchTop.propIdx > Len(SearchItem.props)
    /\ LET rest == SubSeq(rtSearch, 1, Len(rtSearch) - 1)
       IN IF rest = <<>>
          THEN /\ rtSearch' = <<>>
               /\ rtStatus' = "threw"
               /\ rtResult' = ErrorResult("image was not found", rtCall.imageId)
          ELSE /\ rtSearch' = [rest EXCEPT ![Len(rest)].linkIdx = @ + 1]
               /\ UNCHANGED <<rtStatus, rtResult>>
    /\ UNCHANGED <<rtInputs, rtCall, rtInvoked, warned>>

\* the resolver is handed the mapped items and a query configuration
InitRT ==
    /\ rtItems \in [RTCodenames -> LinkedItems \cup {AbsentLinkedItem}]
    /\ queryConfig \in [richTextResolver : BOOLEAN, richTextImageResolver : BOOLEAN]
    /\ enableAdvancedLogging \in BOOLEAN
    /\ throwErrorForMissingLinkedItems \in BOOLEAN
    /\ rtCall = NoCall
    /\ rtStatus = "idle"
    /\ rtResult = NoResult
    /\ rtInvoked = {}
    /\ rtSearch = <<>>
    /\ modularContent = [c \in Codenames |-> AbsentItem]
    /\ propertyResolver = NoPropertyResolver
    /\ decorators = NoDecorators
    /\ instances = <<>>
    /\ processedItems = <<>>
    /\ stack = <<>>
    /\ status = "idle"
    /\ result = None
    /\ error = ""
    /\ warned = FALSE
    /\ TypeIdle
    /\ UrlIdle
    /\ ElementIdle

NextRT ==
    \/ GetLinkedItemHtml
    \/ GetImageResult
    \/ SearchElement
    \/ SearchLinkedItem
    \/ SearchNextElement
    \/ SearchReturn

SpecRT == InitRT /\ [][NextRT]_vars

----------------------------------------------------------------------------
(* Mapping the fields of one item under every configuration of its type *)

\* property names a propertyResolver and the decorators of a class yield
ResolvedNames == {"", "r1", "r2"}
DecoratedNames == {"", "d1"}

PropertyResolvers ==
    {NoPropertyResolver}
    \cup {[defined |-> TRUE, names |-> f] : f \in [ElementNameSet -> ResolvedNames]}

\* items whose elements are of the types handled without recursion, or unknown
FieldItems ==
    {[present |-> TRUE, hasSystem |-> TRUE, hasElements |-> TRUE, elements |-> e] :
        e \in BoundedSeq({[type |-> t, hasValue |-> TRUE, refs |-> <<>>] :
                            t \in {"text", "url_slug", "custom"}},
                         Len(ElementNames)) \ {<<>>}}

\* a response of one item, its type registered or not, and the resolvers of the
\* model class and of the query
InitFields ==
    /\ \E ra \in FieldItems :
            modularContent = ("a" :> ra) @@ ("b" :> AbsentItem) @@ ("c" :> AbsentItem)
    /\ enableAdvancedLogging \in BOOLEAN
    /\ throwErrorForMissingLinkedItems = FALSE
    /\ propertyResolver \in PropertyResolvers
    /\ decorators \in [ElementNameSet -> DecoratedNames]
    /\ typeResolver \in BOOLEAN
    /\ queryLinkResolver \in BOOLEAN
    /\ itemLinkResolver \in BOOLEAN
    /\ instances = <<>>
    /\ processedItems = <<>>
    /\ stack = <<>>
    /\ status = "idle"
    /\ result = None
    /\ error = ""
    /\ warned = FALSE
    /\ rtItems = [c \in RTCodenames |-> AbsentLinkedItem]
    /\ queryConfig = [richTextResolver |-> FALSE, richTextImageResolver |-> FALSE]
    /\ rtCall = NoCall
    /\ rtStatus = "idle"
    /\ rtResult = NoResult
    /\ rtInvoked = {}
    /\ rtSearch = <<>>
    /\ UrlIdle
    /\ ElementIdle

NextFields ==
    \/ MapRootItem
    \/ MapScalarField
    \/ MapUnsupportedField
    \/ ReturnItem

SpecFields == InitFields /\ [][NextFields]_vars

----------------------------------------------------------------------------
(* RichTextResolver.getUrlSlugResult *)

UrlSlugResult(by, of) == [kind |-> "urlslug", by |-> by, of |-> of]
\* the object with empty html and empty url
EmptyUrlSlug == UrlSlugResult("", "")

FindLinkFirst(ls, itemId) == IF ls # <<>> THEN ls[1] ELSE NoLink

\* data.links.find(m => m.linkId === data.itemId), NoLink when undefined
FindLink(ls, itemId) ==
    IF \E i \in 1..Len(ls) : ls[i].linkId = itemId
    THEN ls[CHOOSE i \in 1..Len(ls) :
                /\ ls[i].linkId = itemId
                /\ \A j \in 1..(i - 1) : ls[j].linkId # itemId]
    ELSE NoLink

\* what a resolver function of the kind returns for the link; NoResult is undefined
ResolverOutput(kind, by, link) ==
    IF kind = "url" THEN UrlSlugResult(by, link.linkId)
    ELSE IF kind = "empty" THEN EmptyUrlSlug
    ELSE NoResult

ResolveUrlSlugGlobalFirst(existingLink, resolvers) ==
    LET q == resolvers.query
        g == resolvers.global[existingLink.type]
        qres == ResolverOutput(q, "queryConfig.urlSlugResolver", existingLink)
        gres == ResolverOutput(g, "globalUrlSlugResolver", existingLink)
        ginv == IF g # "none" THEN {"globalUrlSlugResolver"} ELSE {}
    IN IF g # "none" /\ gres # NoResult
       THEN Outcome("returned", gres, ginv, FALSE)
       ELSE IF q # "none" /\ qres # NoResult
       THEN Outcome("returned", qres, ginv \cup {"queryConfig.urlSlugResolver"}, FALSE)
       ELSE Outcome("returned", EmptyUrlSlug,
                    ginv \cup (IF q # "none" THEN {"queryConfig.urlSlugResolver"} ELSE {}),
                    TRUE)

\* getUrlSlugResult once the link is at hand: the resolver of the query, then
\* the global resolver of the link's type, each tested for a (truthy) result
ResolveUrlSlug(existingLink, resolvers) ==
    LET q == resolvers.query
        g == resolvers.global[existingLink.type]
        qres == ResolverOutput(q, "queryConfig.urlSlugResolver", existingLink)
        gres == ResolverOutput(g, "globalUrlSlugResolver", existingLink)
        qinv == IF q # "none" THEN {"queryConfig.urlSlugResolver"} ELSE {}
    IN IF q # "none" /\ qres # NoResult
       THEN Outcome("returned", qres, qinv, FALSE)
       ELSE IF g # "none" /\ gres # NoResult
       THEN Outcome("returned", gres, qinv \cup {"globalUrlSlugResolver"}, FALSE)
       ELSE Outcome("returned", EmptyUrlSlug,
                    qinv \cup (IF g # "none" THEN {"globalUrlSlugResolver"} ELSE {}),
                    TRUE)

\* getUrlSlugResult
UrlSlugLookup(ls, itemId, resolvers) ==
    LET existingLink == FindLink(ls, itemId)
    IN IF existingLink = NoLink
       THEN Outcome("returned", EmptyUrlSlug, {}, TRUE)
       ELSE ResolveUrlSlug(existingLink, resolvers)

\* the parser asks for the url and html of a hyperlink to an item
GetUrlSlugResult ==
    /\ rtStatus = "idle"
    /\ \E itemId \in LinkIds :
        /\ rtCall' = [op |-> "getUrlSlugResult", itemCodename |-> "", imageId |-> "",
                      elementName |-> "", itemId |-> itemId]
        /\ Conclude(UrlSlugLookup(links, itemId, urlSlugResolvers))
    /\ UNCHANGED <<rtInputs, rtSearch>>

\* the resolver is handed the links of a rich-text element and the resolvers
InitUrl ==
    /\ links \in BoundedSeq(LinkRecords, MaxLinks)
    /\ urlSlugResolvers \in [query : ResolverKinds, global : [LinkTypes -> ResolverKinds]]
    /\ enableAdvancedLogging \in BOOLEAN
    /\ throwErrorForMissingLinkedItems \in BOOLEAN
    /\ rtItems = [c \in RTCodenames |-> AbsentLinkedItem]
    /\ queryConfig = [richTextResolver |-> FALSE, richTextImageResolver |-> FALSE]
    /\ rtCall = NoCall
    /\ rtStatus = "idle"
    /\ rtResult = NoResult
    /\ rtInvoked = {}
    /\ rtSearch = <<>>
    /\ modularContent = [c \in Codenames |-> AbsentItem]
    /\ propertyResolver = NoPropertyResolver
    /\ decorators = NoDecorators
    /\ instances = <<>>
    /\ processedItems = <<>>
    /\ stack = <<>>
    /\ status = "idle"
    /\ result = None
    /\ error = ""
    /\ warned = FALSE
    /\ TypeIdle
    /\ ElementIdle

NextUrl == GetUrlSlugResult

SpecUrl == InitUrl /\ [][NextUrl]_vars

----------------------------------------------------------------------------
(* GenericElementMapper *)

MapElementNoCheck(response) ==
    [status |-> "returned", error |-> "",
     element |-> [codename |-> response.codename, name |-> response.name,
                  type |-> response.type,
                  options |-> IF response.options.kind = "array"
                              THEN response.options.list ELSE <<>>,
                  taxonomyGroup |-> response.taxonomy_group]]

\* mapElement: throws on a falsy response, else builds the GenericElement;
\* response.options ? response.options : [] keeps every array, the empty one too
MapElement(response) ==
    IF response.kind # "object"
    THEN [status |-> "threw", error |-> "Invalid response for mapping element",
          element |-> NoElement]
    ELSE [status |-> "returned", error |-> "",
          element |-> [codename |-> response.codename, name |-> response.name,
                       type |-> response.type,
                       options |-> IF response.options.kind = "array"
                                   THEN response.options.list ELSE <<>>,
                       taxonomyGroup |-> response.taxonomy_group]]

\* the type mapper maps an element of the response
MapElementCall ==
    /\ elementResult = NotMapped
    /\ elementResult' = MapElement(elementResponse)
    /\ UNCHANGED <<mapperVars, rtVars, typeVars, urlVars, elementResponse>>

\* mapElement is handed null, undefined or a raw element
InitElement ==
    /\ elementResponse \in ElementResponses
    /\ elementResult = NotMapped
    /\ modularContent = [c \in Codenames |-> AbsentItem]
    /\ enableAdvancedLogging = FALSE
    /\ throwErrorForMissingLinkedItems = FALSE
    /\ propertyResolver = NoPropertyResolver
    /\ decorators = NoDecorators
    /\ instances = <<>>
    /\ processedItems = <<>>
    /\ stack = <<>>
    /\ status = "idle"
    /\ result = None
    /\ error = ""
    /\ warned = FALSE
    /\ rtItems = [c \in RTCodenames |-> AbsentLinkedItem]
    /\ queryConfig = [richTextResolver |-> FALSE, richTextImageResolver |-> FALSE]
    /\ rtCall = NoCall
    /\ rtStatus = "idle"
    /\ rtResult = NoResult
    /\ rtInvoked = {}
    /\ rtSearch = <<>>
    /\ TypeIdle
    /\ UrlIdle

NextElement == MapElementCall

SpecElement == InitElement /\ [][NextElement]_vars

----------------------------------------------------------------------------
(* Properties of a mapping pass *)

Range(seq) == {seq[i] : i \in 1..Len(seq)}

\* the element of the raw item that was assigned to property name
ElementIndex(name) ==
    CHOOSE k \in 1..Len(ElementNames) :
        PropertyName(ItemTyped(typeResolver).propertyResolver,
                     ItemTyped(typeResolver).decorators, ElementNames[k]) = name

RawFieldOf(inst, name) == modularContent[inst.codename].elements[ElementIndex(name)]

\* codenames an item references from linked-items values and rich-text modular_content
RefsOf(item) ==
    IF WellFormed(item)
    THEN UNION {Range(item.elements[k].refs) : k \in 1..Len(item.elements)}
    ELSE {}

RECURSIVE ReachFrom(_, _)
ReachFrom(S, n) ==
    IF n = 0 THEN S
    ELSE ReachFrom(S \cup {c \in Codenames : modularContent[c].present
                                /\ \E p \in S : c \in RefsOf(modularContent[p])}, n - 1)

\* items of the payload that the references lead to from the root
Reachable == ReachFrom({Root}, Cardinality(Codenames))

\* some item references itself through a chain of references
OnCycle(c) == \E d \in Codenames :
    /\ modularContent[d].present
    /\ d \in RefsOf(modularContent[c])
    /\ c \in ReachFrom({d}, Cardinality(Codenames))

\* the pass is about to look at an item without system or without elements
AtMalformed ==
    \/ status = "idle" /\ Malformed(modularContent[Root])
    \/ /\ InLoop
       /\ MapFieldHandler(TopField.type) \in {"mapModularField", "mapRichTextField"}
       /\ TopField.hasValue
       /\ Top.refIdx <= Len(TopField.refs)
       /\ Malformed(modularContent[TopField.refs[Top.refIdx]])

ClosedFieldTypes == {"modular_content", "text", "asset", "number", "multiple_choice",
                     "datetime", "rich_text", "url_slug", "taxonomy"}

VariantOfType ==
    [t \in ClosedFieldTypes |->
        CASE t = "modular_content" -> "mapModularField"
          [] t = "text" -> "mapTextField"
          [] t = "asset" -> "mapAssetsField"
          [] t = "number" -> "mapNumberField"
          [] t = "multiple_choice" -> "mapMultipleChoiceField"
          [] t = "datetime" -> "mapDateTimeField"
          [] t = "rich_text" -> "mapRichTextField"
          [] t = "url_slug" -> "mapUrlSlugField"
          [] t = "taxonomy" -> "mapTaxonomyField"]

IsPresent(c) == modularContent[c].present
PresentRefs(refs) == SelectSeq(refs, IsPresent)

\* a linked-items field that was mapped to a list
MappedModularFields ==
    {<<i, n>> \in (1..Len(instances)) \X ElementNameSet :
        /\ n \in DOMAIN instances[i].props
        /\ instances[i].props[n].kind = "mapModularField"
        /\ ~instances[i].props[n].isNull}

\* C1: a pass started with an empty processedItems list terminates on every
\* response graph, cyclic ones included: the recursion of mapFields never
\* goes on until the call stack is exhausted.
C1_MappingTerminates ==
    (\E c \in Reachable : OnCycle(c)) => status # "overflow"

\* C2: one typed item instance is created per codename, and every item stored
\* in a linked-items or rich-text field is the instance registered in
\* processedItems, never a second instance of an already registered codename.
C2_OneInstancePerCodename ==
    /\ \A i, j \in 1..Len(instances) :
            instances[i].codename = instances[j].codename => i = j
    /\ \A i \in 1..Len(instances) : \A n \in DOMAIN instances[i].props :
            Range(instances[i].props[n].items) \subseteq Range(processedItems)

\* C3: no two entries of processedItems have the same codename.
C3_UniqueProcessedCodenames ==
    \A i, j \in 1..Len(processedItems) :
        instances[processedItems[i]].codename = instances[processedItems[j]].codename
            => i = j

C3_Witness ==
    /\ status = "done"
    /\ Len(processedItems) = 3
    /\ Len(instances) > Len(processedItems)

\* C4: when the root or a sibling the pass reaches lacks system or elements,
\* an Error is raised at that item and aborts the pass, and no typed item is
\* returned: a payload with such an item in reach of the root never maps.
C4_MalformedItemAborts ==
    /\ [][AtMalformed => (status' = "failed" /\ error' # "" /\ result' = None)]_vars
    /\ []((\E c \in Reachable : Malformed(modularContent[c]))
            => (status # "done" /\ result = None))

C4_Witness ==
    /\ status = "failed"
    /\ Malformed(modularContent["b"])
    /\ Len(processedItems) = 1
    /\ error \in {"no system attributes", "cannot map elements",
                  "cannot read codename of undefined system"}

\* C5 as claimed: after a failed pass processedItems holds no item of the pass.
C5_FailedPassLeavesNoItems == status = "failed" => processedItems = <<>>

\* C5 amended: a failing pass returns no typed item, and the step that raises
\* the Error leaves processedItems as it is: the items registered before the
\* failure stay in the list.
C5_FailedPassKeepsRegistered ==
    [][status' \in {"failed", "overflow"}
        => (result' = None /\ processedItems' = processedItems)]_vars

C5_Witness ==
    /\ status = "failed"
    /\ Len(processedItems) >= 2
    /\ \E i \in Range(processedItems) : DOMAIN instances[i].props = {}

\* C6: the variant of a mapped field is a function of the raw type string, and
\* a type outside the closed set raises an Error with logging on or off,
\* leaving the element unassigned.
C6_UnsupportedTypeThrows ==
    /\ [][(InLoop /\ TopField.type \notin ClosedFieldTypes)
            => (status' = "failed" /\ error' = "unsupported field type"
                /\ instances' = instances)]_vars
    /\ [](\A i \in 1..Len(instances) : \A n \in DOMAIN instances[i].props :
            /\ RawFieldOf(instances[i], n).type \in ClosedFieldTypes
            /\ instances[i].props[n].kind = VariantOfType[RawFieldOf(instances[i], n).type])

C6_Witness ==
    /\ error = "unsupported field type"
    /\ ~enableAdvancedLogging
    /\ ~warned
    /\ Len(processedItems) >= 2

\* C7: a mapped linked-items list is the field's codenames that are present in
\* the payload, in the declared order, each as the instance registered in
\* processedItems for the codename.
C7_ModularListInOrder ==
    \A f \in MappedModularFields :
        LET inst == instances[f[1]]
            kept == PresentRefs(RawFieldOf(inst, f[2]).refs)
            items == inst.props[f[2]].items
        IN /\ Len(items) = Len(kept)
           /\ \A k \in 1..Len(kept) :
                /\ FindProcessed(processedItems, instances, kept[k]) # 0
                /\ items[k] = processedItems[FindProcessed(processedItems, instances, kept[k])]

C7_Witness ==
    /\ \E f \in MappedModularFields :
        LET items == instances[f[1]].props[f[2]].items
        IN Len(items) = 2 /\ items[1] # items[2]
    /\ \E f \in MappedModularFields :
        LET refs == RawFieldOf(instances[f[1]], f[2]).refs
        IN /\ Len(refs) = 2
           /\ ~IsPresent(refs[1])
           /\ Len(instances[f[1]].props[f[2]].items) = 1

\* C8: with throwErrorForMissingLinkedItems set, no linked-items field that
\* references a codename absent from the payload is mapped to a list.
C8_StrictModularThrows ==
    throwErrorForMissingLinkedItems =>
        \A f \in MappedModularFields :
            \A c \in Range(RawFieldOf(instances[f[1]], f[2]).refs) : IsPresent(c)

\* C9: in lenient mode a codename of a rich-text modular_content that is absent
\* from the payload raises no Error.
C9_LenientRichTextCompletes ==
    ~throwErrorForMissingLinkedItems =>
        error # "modular content item is not present in response"

\* C19: mapFields registers a codename that is not yet in processedItems before
\* it maps any field of the item, so whenever mapFields calls are nested every
\* codename on the call stack is in processedItems.
C19_StackIsRegistered ==
    /\ [](\A k \in 1..Len(stack) :
            FindProcessed(processedItems, instances, stack[k].codename) # 0)
    /\ [][Len(processedItems') > Len(processedItems)
            => /\ processedItems' = Append(processedItems, Len(instances'))
               /\ instances'[Len(instances')].props = << >>
               /\ FindProcessed(processedItems, instances,
                                instances'[Len(instances')].codename) = 0]_vars

C19_Witness ==
    /\ status = "running"
    /\ Len(stack) = 3
    /\ Len(processedItems) = 3
    /\ stack[1].codename # stack[2].codename

\* the forEach of mapFields is at a field of the raw type
AtFieldOfType(type) == InLoop /\ TopField.type = type

\* the step assigned the current field and went on to the next one
FieldAssigned ==
    /\ InLoop
    /\ status' = "running"
    /\ Len(stack') = Len(stack)
    /\ stack'[Len(stack')].fieldIdx = Top.fieldIdx + 1

\* mapped url-slug fields: instance and property
MappedUrlSlugFields ==
    {<<i, n>> \in (1..Len(instances)) \X (ElementNameSet \cup ResolvedNames \cup DecoratedNames) :
        /\ n \in DOMAIN instances[i].props
        /\ instances[i].props[n].kind = "mapUrlSlugField"}

\* C14: a mapped URL-slug field holds the linkResolver of the query when one is
\* configured, else the linkResolver of the item's model class, else none; and
\* mapping a URL-slug field raises no Error whatever is configured, the field
\* being assigned with no resolver when there is none anywhere.
C14_LinkResolverPrecedence ==
    /\ [](\A f \in MappedUrlSlugFields :
            instances[f[1]].props[f[2]].linkResolver =
                IF queryLinkResolver THEN "queryConfig.linkResolver"
                ELSE IF typeResolver /\ itemLinkResolver THEN "item.linkResolver"
                ELSE "")
    /\ [][AtFieldOfType("url_slug") => (FieldAssigned /\ error' = "")]_vars

C14_Witness ==
    /\ status = "done"
    /\ error = ""
    /\ ~queryLinkResolver
    /\ ~(typeResolver /\ itemLinkResolver)
    /\ \E f \in MappedUrlSlugFields : instances[f[1]].props[f[2]].linkResolver = ""

\* codenames of the elements of a raw item
RawCodenames(item) == {ElementNames[k] : k \in 1..Len(item.elements)}

\* C16: with no type resolver for the item's type the mapped item is the
\* generic ContentItem, and it holds the mapped field of every raw element
\* under the element's codename: its mapped properties are the raw codenames.
C16_GenericItemByCodename ==
    (~typeResolver /\ status = "done") =>
        LET item == instances[result]
            raw == modularContent[item.codename]
        IN /\ item.generic
           /\ DOMAIN item.props = RawCodenames(raw)
           /\ \A k \in 1..Len(raw.elements) :
                item.props[ElementNames[k]].kind = MapFieldHandler(raw.elements[k].type)

C16_Witness ==
    /\ ~typeResolver
    /\ status = "done"
    /\ propertyResolver.defined
    /\ propertyResolver.names["e1"] = "r1"
    /\ decorators["e2"] = "d1"
    /\ DOMAIN instances[result].props = {"e1", "e2"}
    /\ instances[result].props["e2"].kind = "mapUrlSlugField"

\* the first non-empty of: propertyResolver(codename), the decorated property,
\* the codename
FirstNonEmptyName(codename) ==
    LET item == ItemTyped(typeResolver)
        resolved == IF item.propertyResolver.defined
                    THEN item.propertyResolver.names[codename] ELSE ""
        decorated == item.decorators[codename]
    IN IF resolved # "" THEN resolved
       ELSE IF decorated # "" THEN decorated
       ELSE codename

\* C20: each raw element is assigned to one property: the name the item's
\* propertyResolver gives for the codename if it is non-empty, else the
\* decorated property name if there is one, else the codename; the step assigns
\* that property and no other.
C20_PropertyNamePrecedence ==
    [][FieldAssigned =>
        LET name == FirstNonEmptyName(ElementNames[Top.fieldIdx])
            before == instances[Top.inst].props
            after == instances'[Top.inst].props
        IN /\ DOMAIN after = DOMAIN before \cup {name}
           /\ after[name].kind = MapFieldHandler(TopField.type)
           /\ \A n \in DOMAIN before \ {name} : after[n] = before[n]
           /\ \A i \in 1..Len(instances) : i # Top.inst => instances'[i] = instances[i]
           /\ Len(instances') = Len(instances)]_vars

C20_Witness ==
    /\ status = "done"
    /\ typeResolver
    /\ propertyResolver.defined
    /\ propertyResolver.names["e1"] = "r2"
    /\ propertyResolver.names["e2"] = ""
    /\ decorators["e1"] = "d1"
    /\ decorators["e2"] = "d1"
    /\ DOMAIN instances[result].props = {"r2", "d1"}

----------------------------------------------------------------------------
(* Properties of the rich-text resolver *)

\* the call in progress or ended is about a codename getLinkedItem has no item for
LinkedItemMissing == rtCall.op # "none" /\ ~GetLinkedItem(rtCall.itemCodename).present

\* C10: when getLinkedItem yields nothing, getLinkedItemHtml and getImageResult
\* throw an Error naming the codename in strict mode and return the empty
\* string / an empty url otherwise, and no resolver function is invoked.
C10_MissingLinkedItem ==
    LinkedItemMissing =>
        /\ rtInvoked = {}
        /\ IF throwErrorForMissingLinkedItems
           THEN /\ rtStatus = "threw"
                /\ rtResult.kind = "error"
                /\ rtResult.of = rtCall.itemCodename
           ELSE /\ rtStatus = "returned"
                /\ rtResult = IF rtCall.op = "getLinkedItemHtml" THEN EmptyHtml ELSE EmptyUrl

C10_Witness ==
    /\ LinkedItemMissing
    /\ rtCall.op = "getLinkedItemHtml"
    /\ ~throwErrorForMissingLinkedItems
    /\ queryConfig.richTextResolver
    /\ rtStatus = "returned"

\* C11: for a linked item that is there, getLinkedItemHtml returns the output of
\* the query's richTextResolver when one is configured and then does not call the
\* item's own resolver; without it the output of the item's own resolver; with
\* neither the empty string, and then no resolver is called.
C11_QueryResolverFirst ==
    (rtCall.op = "getLinkedItemHtml" /\ GetLinkedItem(rtCall.itemCodename).present) =>
        /\ rtStatus = "returned"
        /\ IF queryConfig.richTextResolver
           THEN /\ rtResult = HtmlResult("queryConfig.richTextResolver", rtCall.itemCodename)
                /\ rtInvoked = {"queryConfig.richTextResolver"}
           ELSE IF GetLinkedItem(rtCall.itemCodename).ownResolver
           THEN /\ rtResult = HtmlResult("linkedItem.richTextResolver", rtCall.itemCodename)
                /\ rtInvoked = {"linkedItem.richTextResolver"}
           ELSE /\ rtResult = EmptyHtml
                /\ rtInvoked = {}

C11_Witness ==
    /\ rtCall.op = "getLinkedItemHtml"
    /\ GetLinkedItem(rtCall.itemCodename).present
    /\ GetLinkedItem(rtCall.itemCodename).ownResolver
    /\ queryConfig.richTextResolver
    /\ rtResult = HtmlResult("queryConfig.richTextResolver", rtCall.itemCodename)

Present(codenames) == {c \in codenames : GetLinkedItem(c).present}

\* codenames the rich-text elements of an item link to
LinkedFrom(item) ==
    UNION {Range(item.props[k].linkedItemCodenames) :
            k \in {j \in 1..Len(item.props) : item.props[j].isRichText}}

RECURSIVE LinkedReach(_, _)
LinkedReach(S, n) ==
    IF n = 0 THEN S
    ELSE LinkedReach(S \cup Present(UNION {LinkedFrom(GetLinkedItem(c)) : c \in S}), n - 1)

\* the image is in a rich-text element of the item or of an item its rich-text
\* elements lead to
ImageWithin(codename, imageId) ==
    \E c \in LinkedReach({codename}, Cardinality(RTCodenames)) :
        \E k \in 1..Len(GetLinkedItem(c).props) :
            /\ GetLinkedItem(c).props[k].isRichText
            /\ imageId \in GetLinkedItem(c).props[k].images

\* the named element of the item is there and is no rich-text element
InvalidElement(codename, elementName) ==
    /\ PropIndex(elementName) # 0
    /\ ~GetLinkedItem(codename).props[PropIndex(elementName)].isRichText

ImageCallEnded ==
    /\ rtCall.op = "getImageResult"
    /\ GetLinkedItem(rtCall.itemCodename).present
    /\ ~InvalidElement(rtCall.itemCodename, rtCall.elementName)
    /\ rtStatus # "searching"

\* C15: a getImageResult call on an item that is there ends with an Error when
\* the image is in no rich-text element within reach of the item, in strict and
\* in lenient mode and with or without a richTextImageResolver; when the image
\* is within reach it ends with the output of the richTextImageResolver if one
\* is configured and with the image's url otherwise.
C15_ImageFoundOrError ==
    ImageCallEnded =>
        IF ImageWithin(rtCall.itemCodename, rtCall.imageId)
        THEN /\ rtStatus = "returned"
             /\ rtResult = IF queryConfig.richTextImageResolver
                           THEN ImageResult("queryConfig.richTextImageResolver", rtCall.imageId)
                           ELSE ImageResult("image.url", rtCall.imageId)
        ELSE /\ rtStatus = "threw"
             /\ rtResult = ErrorResult("image was not found", rtCall.imageId)

\* C18: tryGetImageFromLinkedItem ends on every graph of linked items, cyclic
\* ones with the image absent included, and never has more calls running than
\* there are items.
C18_ImageSearchBounded ==
    /\ rtStatus # "overflow"
    /\ Len(rtSearch) <= Cardinality(Present(RTCodenames))

----------------------------------------------------------------------------
(* Properties of getUrlSlugResult *)

UrlSlugCall == rtCall.op = "getUrlSlugResult"

\* the links of the element hold one with the id of the placeholder
LinkPresent == \E i \in 1..Len(links) : links[i].linkId = rtCall.itemId

\* the first such link
TheLink ==
    links[CHOOSE i \in 1..Len(links) :
            /\ links[i].linkId = rtCall.itemId
            /\ \A j \in 1..(i - 1) : links[j].linkId # rtCall.itemId]

\* C12: when no link has the id of the placeholder, getUrlSlugResult throws
\* nothing in strict or lenient mode, with logging on or off and whatever the
\* resolvers are: it returns the object with empty html and url and invokes
\* neither the resolver of the query nor a global one.
C12_AbsentLinkIsEmpty ==
    (UrlSlugCall /\ ~LinkPresent) =>
        /\ rtStatus = "returned"
        /\ rtResult = EmptyUrlSlug
        /\ rtInvoked = {}

C12_Witness ==
    /\ UrlSlugCall
    /\ ~LinkPresent
    /\ links # <<>>
    /\ throwErrorForMissingLinkedItems
    /\ urlSlugResolvers.query = "url"
    /\ urlSlugResolvers.global[links[1].type] = "url"
    /\ rtStatus = "returned"

\* C13 as claimed, an empty result being the object with empty html and url:
\* the result is the one of the query's resolver if it has a url, else the one
\* of the global resolver of the link's type if it has a url, else the empty
\* result.
C13_NonEmptyResultFirst ==
    (UrlSlugCall /\ LinkPresent) =>
        /\ rtStatus = "returned"
        /\ rtResult =
            IF urlSlugResolvers.query = "url"
            THEN UrlSlugResult("queryConfig.urlSlugResolver", rtCall.itemId)
            ELSE IF urlSlugResolvers.global[TheLink.type] = "url"
            THEN UrlSlugResult("globalUrlSlugResolver", rtCall.itemId)
            ELSE EmptyUrlSlug

\* C13 amended: the result is whatever the query's resolver returns, if it
\* returns anything (an object with empty html and url included); only when
\* there is no such resolver or it returns undefined is the global resolver of
\* the link's type invoked, and its result returned if it returns anything;
\* the empty result otherwise.
C13_ReturnedResultFirst ==
    (UrlSlugCall /\ LinkPresent) =>
        LET q == urlSlugResolvers.query
            g == urlSlugResolvers.global[TheLink.type]
        IN /\ rtStatus = "returned"
           /\ rtResult =
                IF q = "url" THEN UrlSlugResult("queryConfig.urlSlugResolver", rtCall.itemId)
                ELSE IF q = "empty" THEN EmptyUrlSlug
                ELSE IF g = "url" THEN UrlSlugResult("globalUrlSlugResolver", rtCall.itemId)
                ELSE EmptyUrlSlug
           /\ ("queryConfig.urlSlugResolver" \in rtInvoked) = (q # "none")
           /\ ("globalUrlSlugResolver" \in rtInvoked) = (q \in {"none", "undefined"} /\ g # "none")

C13_Witness ==
    /\ UrlSlugCall
    /\ LinkPresent
    /\ urlSlugResolvers.query = "empty"
    /\ urlSlugResolvers.global[TheLink.type] = "url"
    /\ rtResult = EmptyUrlSlug
    /\ rtInvoked = {"queryConfig.urlSlugResolver"}

----------------------------------------------------------------------------
(* Properties of the element mapper *)

\* C17: mapElement throws for a null or undefined response and for nothing
\* else; for a raw element it returns the element whose codename, name, type
\* and taxonomyGroup are the raw codename, name, type and taxonomy_group and
\* whose options are the raw options, or the empty list when there are none.
C17_ElementMapped ==
    elementResult # NotMapped =>
        IF elementResponse.kind \in {"null", "undefined"}
        THEN /\ elementResult.status = "threw"
             /\ elementResult.error # ""
        ELSE /\ elementResult.status = "returned"
             /\ elementResult.error = ""
             /\ elementResult.element.codename = elementResponse.codename
             /\ elementResult.element.name = elementResponse.name
             /\ elementResult.element.type = elementResponse.type
             /\ elementResult.element.taxonomyGroup = elementResponse.taxonomy_group
             /\ elementResult.element.options =
                    IF elementResponse.options.kind \in {"undefined", "null"}
                    THEN <<>> ELSE elementResponse.options.list

C17_Witness ==
    /\ elementResult.status = "returned"
    /\ elementResponse.type = "taxonomy"
    /\ elementResponse.options.kind = "undefined"
    /\ elementResult.element.options = <<>>
    /\ elementResult.element.taxonomyGroup = "releasecategory"

====
